---- MODULE Spec2Model ----
(***************************************************************************)
(* A model of src/src/script.tsx: the butterfly-curve scene.               *)
(*                                                                         *)
(* Numbers.  The settings h, s, l move in slider steps of 0.01, so they    *)
(* are kept as integers in hundredths.  The hue and the lightness handed   *)
(* to THREE.Color.setHSL are exact fractions [num, den].  Every other      *)
(* double (the curve coordinates, the colour components) is a fixed-point  *)
(* integer in units of 1/Scale, and the trigonometric functions are        *)
(* evaluated on angles that are rational multiples of pi.                  *)
(***************************************************************************)
EXTENDS Integers, Sequences, FiniteSets, TLC

\* ------------------------------------------------------------------------
\* Precision of the arithmetic model
\* ------------------------------------------------------------------------

\* One unit of a fixed-point double is 1/Scale.
Scale == 1000

\* Angles are quantised to pi/HalfTurn before a sine is taken.
HalfTurn == 500

\* A Float32Array element keeps a multiple of F32Quantum units.
F32Quantum == 2

\* Denominator of a slider value of step 0.01.
Hundredths == 100

\* ------------------------------------------------------------------------
\* Math.* on fixed-point numbers
\* ------------------------------------------------------------------------

Abs(a) == IF a < 0 THEN -a ELSE a

\* a * b of two fixed-point numbers (rounded toward zero).
Mul(a, b) ==
    IF (a < 0) = (b < 0) THEN Abs(a * b) \div Scale ELSE -(Abs(a * b) \div Scale)

\* Bhaskara's rational approximation of sin(pi * a / HalfTurn) for
\* 0 <= a <= HalfTurn, from p = a * (HalfTurn - a).
BhaskaraRatio(p) == (16 * p * Scale) \div (5 * HalfTurn * HalfTurn - 4 * p)

\* sin(pi * q / HalfTurn) for 0 <= q < 2 * HalfTurn.
SinQuantised(q) ==
    IF q >= HalfTurn
    THEN -BhaskaraRatio((q - HalfTurn) * (2 * HalfTurn - q))
    ELSE BhaskaraRatio(q * (HalfTurn - q))

\* Math.sin(pi * num / den), den > 0: the angle is reduced to one turn and
\* quantised (exact at the multiples of pi/2).
SinPi(num, den) == SinQuantised(((num % (2 * den)) * HalfTurn) \div den)

\* Math.cos(pi * num / den) = sin(pi * num / den + pi / 2).
CosPi(num, den) == SinPi(2 * num + den, 2 * den)

\* Math.exp(u) for a fixed-point u in [-1, 1]: the Taylor polynomial of
\* degree 6, in Horner's form.
Exp(u) ==
    Scale + Mul(u, Scale + Mul(u, Scale + Mul(u, Scale + Mul(u, Scale
          + Mul(u, Scale + u \div 6) \div 5) \div 4) \div 3) \div 2)

\* Math.pow(u, 5).
Pow5(u) == Mul(Mul(Mul(Mul(u, u), u), u), u)

\* The JavaScript remainder a % b for b > 0: it keeps the sign of a.
JsRem(a, b) == IF a < 0 THEN -((-a) % b) ELSE a % b

\* One element stored into a Float32Array: rounded to the nearest
\* representable value, symmetrically in the sign.
Fround(v) ==
    IF v < 0
    THEN -(((-v + F32Quantum \div 2) \div F32Quantum) * F32Quantum)
    ELSE ((v + F32Quantum \div 2) \div F32Quantum) * F32Quantum

\* new Float32Array(numbers): as long as numbers, each element converted.
Float32Array(numbers) == [k \in DOMAIN numbers |-> Fround(numbers[k])]

\* ------------------------------------------------------------------------
\* THREE.Color.setHSL
\* ------------------------------------------------------------------------

\* A fraction [num, den] as a fixed-point number.
ToFixed(f) == (f.num * Scale) \div f.den

Clamp(v, lo, hi) == IF v < lo THEN lo ELSE IF v > hi THEN hi ELSE v

\* hue2rgb(p, q, t) of three's Color, for t already brought into [0, 1].
Hue2RgbWrapped(p, q, t) ==
    IF 6 * t < Scale THEN p + Mul(q - p, 6 * t)
    ELSE IF 2 * t < Scale THEN q
    ELSE IF 3 * t < 2 * Scale THEN p + Mul(q - p, 6 * ((2 * Scale) \div 3 - t))
    ELSE p

\* hue2rgb(p, q, t): if (t < 0) t += 1; if (t > 1) t -= 1; ...
Hue2Rgb(p, q, t) ==
    Hue2RgbWrapped(p, q, IF t < 0 THEN t + Scale ELSE IF t > Scale THEN t - Scale ELSE t)

\* The three channels from p, q = 2 * l - p and the hue.
HslChannels(p, q, h) ==
    <<Hue2Rgb(q, p, h + Scale \div 3), Hue2Rgb(q, p, h), Hue2Rgb(q, p, h - Scale \div 3)>>

\* p = l <= 0.5 ? l * (1 + s) : l + s - l * s
HslP(s, l) == IF 2 * l <= Scale THEN Mul(l, Scale + s) ELSE l + s - Mul(l, s)

\* setHSL on h in [0, 1), s and l in [0, 1], all fixed-point.
HslToRgb(h, s, l) ==
    IF s = 0 THEN <<l, l, l>> ELSE HslChannels(HslP(s, l), 2 * l - HslP(s, l), h)

\* color.setHSL(h, s, l) followed by reading color.r, color.g, color.b:
\* h = euclideanModulo(h, 1), s = clamp(s, 0, 1), l = clamp(l, 0, 1).
\* h and l are fractions, s is in hundredths.
SetHSL(h, s, l) ==
    HslToRgb(ToFixed(h) % Scale,
             Clamp((s * Scale) \div Hundredths, 0, Scale),
             Clamp(ToFixed(l), 0, Scale))

\* ------------------------------------------------------------------------
\* createButterflyGeometry
\* ------------------------------------------------------------------------

\* Faulty variant of LoopIndices: the loop condition is i <= steps.
LoopIndicesInclusive(steps) == 0..steps

\* The values of i for which the body of
\*     for (let i = 0; i < steps; i++)
\* runs, in increasing order.
LoopIndices(steps) == 0..(steps - 1)

\* r = exp(sin(t)) - 2 * cos(4 * t) + pow(sin((2 * t - pi) / 24), 5) at
\* t = (i / steps) * 24 * pi.
Radius(i, steps) ==
    Exp(SinPi(24 * i, steps)) - 2 * CosPi(4 * 24 * i, steps)
        + Pow5(SinPi(2 * 24 * i - steps, 24 * steps))

\* x = r * sin(t), y = r * cos(t), z = sin(2 * t) * 0.5
PointOf(r, sinT, cosT, sin2T) ==
    [x |-> Mul(r, sinT), y |-> Mul(r, cosT), z |-> sin2T \div 2]

\* The point (x, y, z) of sample i.
CurvePoint(i, steps) ==
    PointOf(Radius(i, steps), SinPi(24 * i, steps), CosPi(24 * i, steps),
            SinPi(2 * 24 * i, steps))

\* pointsLeft.push(x, y, z)
PushLeft(pt) == <<pt.x, pt.y, pt.z>>

\* Faulty variant of PushRight: x is pushed without the sign change.
PushRightUnmirrored(pt) == <<pt.x, pt.y, pt.z>>

\* pointsRight.push(-x, y, z)
PushRight(pt) == <<-pt.x, pt.y, pt.z>>

\* Faulty variant of HueArg: the + 1 that keeps the dividend positive is left out.
HueArgNoOffset(h, i, steps) ==
    [num |-> JsRem(h * steps - 30 * i, Hundredths * steps),
     den |-> Hundredths * steps]

\* The first argument of setHSL at sample i: (h - 0.3 * pct + 1) % 1 with
\* pct = i / steps, over the denominator Hundredths * steps.
HueArg(h, i, steps) ==
    [num |-> JsRem(h * steps - 30 * i + Hundredths * steps, Hundredths * steps),
     den |-> Hundredths * steps]

\* Faulty variant of LightnessArg: pct is taken as (i + 1) / steps.
LightnessArgNextSample(l, i, steps) ==
    [num |-> l * (i + 1), den |-> Hundredths * steps]

\* The third argument of setHSL at sample i: l * pct.
LightnessArg(l, i, steps) == [num |-> l * i, den |-> Hundredths * steps]

\* What one iteration appends to pointsLeft, pointsRight and colors, and
\* the arguments of its setHSL call.
Pushes(pt, hue, s, lgt) ==
    [left   |-> PushLeft(pt),
     right  |-> PushRight(pt),
     colors |-> SetHSL(hue, s, lgt),
     setHSL |-> [h |-> hue, s |-> s, l |-> lgt]]

\* Iteration i of the loop.
Sample(i, steps, hsl) ==
    Pushes(CurvePoint(i, steps), HueArg(hsl.h, i, steps), hsl.s,
           LightnessArg(hsl.l, i, steps))

\* The array that results from appending, in order, the w numbers pushed
\* by each of the iterations.
FlattenWidth(pushes, w) ==
    [k \in 1..(w * Len(pushes)) |-> pushes[((k - 1) \div w) + 1][((k - 1) % w) + 1]]

Flatten(pushes) ==
    IF Len(pushes) = 0 THEN <<>> ELSE FlattenWidth(pushes, Len(pushes[1]))

\* new THREE.BufferAttribute(array, itemSize): count = array.length / itemSize.
BufferAttribute(array, itemSize) ==
    [array |-> array, itemSize |-> itemSize, count |-> Len(array) \div itemSize]

\* The end of createButterflyGeometry, from the three arrays the loop has
\* filled: the typed arrays, the attributes and the two geometries, which
\* share the colour attribute.
Geometries(pointsLeft, pointsRight, colors) ==
    [geometryLeft  |-> [position |-> BufferAttribute(Float32Array(pointsLeft), 3),
                        color    |-> BufferAttribute(Float32Array(colors), 3)],
     geometryRight |-> [position |-> BufferAttribute(Float32Array(pointsRight), 3),
                        color    |-> BufferAttribute(Float32Array(colors), 3)]]

\* The loop has run: samples[k] is what iteration k - 1 pushed.
AfterLoop(samples) ==
    [made |-> Geometries(Flatten([k \in DOMAIN samples |-> samples[k].left]),
                         Flatten([k \in DOMAIN samples |-> samples[k].right]),
                         Flatten([k \in DOMAIN samples |-> samples[k].colors])),
     \* the setHSL calls made, one per iteration: a history of the call,
     \* not part of what it returns
     setHSLCalls |-> [k \in DOMAIN samples |-> samples[k].setHSL]]

\* createButterflyGeometry(steps, hsl)
createButterflyGeometry(steps, hsl) ==
    AfterLoop([k \in 1..Cardinality(LoopIndices(steps)) |-> Sample(k - 1, steps, hsl)])

\* ------------------------------------------------------------------------
\* Bounds of the model
\* ------------------------------------------------------------------------

\* createButterflyGeometry is called at most MaxCalls times in a run (the
\* call at startup included).
MaxCalls == 3

\* The user changes controls, presses keys and resizes the window at most
\* MaxUserEvents times in a run; frames and tween ticks are not counted.
MaxUserEvents == 3

\* The Steps slider is moved among its MaxStepsTicks lowest positions.
MaxStepsTicks == 1

\* One turn of the rotation tween takes TicksPerLoop ticks of gsap's ticker.
TicksPerLoop == 2

\* The curve evaluator alone is applied to 0 .. MaxEvalSteps samples.
MaxEvalSteps == 6

\* ------------------------------------------------------------------------
\* Literals of the program
\* ------------------------------------------------------------------------

\* createButterflyGeometry(2000, {h: 0.85, s: 0.8, l: 0.5}) at startup.
InitialGeometrySteps == 2000
InitialGeometryHsl == [h |-> 85, s |-> 80, l |-> 50]

\* const butterflySettings = { rotate: false, steps: 2000, hsl: {...} }
InitialSettings ==
    [rotate |-> FALSE, steps |-> 2000, hsl |-> [h |-> 85, s |-> 80, l |-> 50]]

\* .min(100).max(5000).step(100) of the Steps controller.
StepsMin == 100
StepsMax == 5000
StepsStep == 100

\* .min(-3).max(3) of the Position controllers, in hundredths.
PositionMin == -300
PositionMax == 300

\* The values the user drags each slider to.
StepsInputs ==
    {v \in {StepsMin + k * StepsStep : k \in 0..(MaxStepsTicks - 1)} : v <= StepsMax}
HueInputs == {0, Hundredths}
SaturationInputs == {0, Hundredths}
LightnessInputs == {0, Hundredths}
PositionInputs == {PositionMin, PositionMax}
Axes == {"x", "y", "z"}
Keys == {"g", "h"}
WindowSizes == {<<800, 600>>, <<1024, 768>>}
InitialWindow == <<800, 600>>

\* The arguments the curve evaluator is applied to on its own.
EvalInputs ==
    [steps : 0..MaxEvalSteps,
     hsl : [h : {0, 1, 30, 85, Hundredths}, s : {0, 80}, l : {0, 50, Hundredths}]]
    \cup [steps : {StepsMin, InitialGeometrySteps}, hsl : {InitialGeometryHsl}]

\* ------------------------------------------------------------------------
\* State
\* ------------------------------------------------------------------------

VARIABLES
    butterflySettings,  \* the settings record bound to the panel
    wingLeft,           \* [geometry]: the Points object
    wingRight,          \* [geometry]: the Line object
    butterfly,          \* the group: [position, rotationY]
    rotateButterfly,    \* the tween: [paused, time]
    tweens,             \* number of tweens created by gsap.to
    calls,              \* number of createButterflyGeometry calls so far
    disposed,           \* ids of the geometries dispose() was called on
    pc,                 \* position of the running callback, "idle" if none
    locals,             \* geometryLeft, geometryRight of a running updateButterfly
    frameRequests,      \* callbacks pending from requestAnimationFrame
    rendered,           \* what the last renderer.render drew
    gui,                \* [hidden]
    viewport,           \* [window, cameraAspect, rendererSize]
    userEvents,         \* user events so far
    evalIn,             \* arguments of the evaluator applied on its own
    evalOut             \* its result

vars ==
    <<butterflySettings, wingLeft, wingRight, butterfly, rotateButterfly, tweens,
      calls, disposed, pc, locals, frameRequests, rendered, gui, viewport,
      userEvents, evalIn, evalOut>>

sceneVars == <<wingLeft, wingRight, calls, disposed, locals>>
evalVars == <<evalIn, evalOut>>

NoLocals == <<>>
NoEval == [done |-> FALSE]

\* ------------------------------------------------------------------------
\* Geometry objects
\* ------------------------------------------------------------------------

\* A buffer attribute as the scene keeps it in this model: the length of its
\* typed array, its itemSize and its count.  The numbers in the array are
\* the evaluator's output for the arguments of the call; they are examined
\* where the evaluator is applied on its own (SpecEval).
Shape(attribute) ==
    [array |-> [length |-> Len(attribute.array)],
     itemSize |-> attribute.itemSize,
     count |-> attribute.count]

\* The shape of an attribute of itemSize 3 whose array holds what one
\* iteration pushed, once per iteration.
ShapeOfPushes(iterations, pushed) ==
    [array |-> [length |-> iterations * Len(pushed)],
     itemSize |-> 3,
     count |-> (iterations * Len(pushed)) \div 3]

ShapesOf(iterations, first) ==
    [geometryLeft  |-> [position |-> ShapeOfPushes(iterations, first.left),
                        color    |-> ShapeOfPushes(iterations, first.colors)],
     geometryRight |-> [position |-> ShapeOfPushes(iterations, first.right),
                        color    |-> ShapeOfPushes(iterations, first.colors)]]

\* The shapes of the attributes createButterflyGeometry(steps, hsl) builds,
\* for steps > 0, without the numbers.
createButterflyShapes(steps, hsl) ==
    ShapesOf(Cardinality(LoopIndices(steps)), Sample(0, steps, hsl))

\* A BufferGeometry object: id tells the objects apart, args records the
\* arguments of the createButterflyGeometry call that made it.
GeometryObject(id, args, shapes) ==
    [id |-> id, args |-> args, position |-> shapes.position, color |-> shapes.color]

\* The two BufferGeometry objects made by the call-th call of
\* createButterflyGeometry.
NewGeometries(call, steps, hsl) ==
    [geometryLeft  |-> GeometryObject(<<call, "Left">>, [steps |-> steps, hsl |-> hsl],
                                      createButterflyShapes(steps, hsl).geometryLeft),
     geometryRight |-> GeometryObject(<<call, "Right">>, [steps |-> steps, hsl |-> hsl],
                                      createButterflyShapes(steps, hsl).geometryRight)]

\* Every geometry object created so far.
Created == (1..calls) \X {"Left", "Right"}

\* Created and not disposed.
Live == Created \ disposed

\* What renderer.render(scene, camera) draws of the butterfly: the geometry
\* attached to each wing at that moment.
Snapshot ==
    [left |-> wingLeft.geometry.id,
     right |-> wingRight.geometry.id,
     disposed |-> {wingLeft.geometry.id, wingRight.geometry.id} \cap disposed]

\* ------------------------------------------------------------------------
\* Startup: the state when the script has run to its end
\* ------------------------------------------------------------------------

InitApp ==
    LET made == NewGeometries(1, InitialGeometrySteps, InitialGeometryHsl)
    IN /\ butterflySettings = InitialSettings
       /\ wingLeft = [geometry |-> made.geometryLeft]
       /\ wingRight = [geometry |-> made.geometryRight]
       /\ butterfly = [position |-> [x |-> 0, y |-> 0, z |-> 0], rotationY |-> 0]
       /\ rotateButterfly = [paused |-> TRUE, time |-> 0]
       /\ tweens = 1
       /\ calls = 1
       /\ disposed = {}
       /\ pc = "idle"
       /\ locals = NoLocals
       \* animate() has run once: it rendered and requested the next frame
       /\ frameRequests = 1
       /\ rendered = [left |-> <<1, "Left">>, right |-> <<1, "Right">>, disposed |-> {}]
       /\ gui = [hidden |-> TRUE]
       /\ viewport = [window |-> InitialWindow, cameraAspect |-> InitialWindow,
                      rendererSize |-> InitialWindow]
       /\ userEvents = 0

Init ==
    /\ InitApp
    /\ evalIn = NoEval
    /\ evalOut = NoEval

\* The host calls a callback only when no callback is running.
Idle == pc = "idle"

UserEvent ==
    /\ Idle
    /\ userEvents < MaxUserEvents
    /\ userEvents' = userEvents + 1

\* ------------------------------------------------------------------------
\* animate
\* ------------------------------------------------------------------------

\* The host runs the pending frame callback: animate starts
\* (controls.update() moves only the camera).
AnimateFrame ==
    /\ Idle
    /\ frameRequests > 0
    /\ frameRequests' = frameRequests - 1
    /\ pc' = "render"
    /\ UNCHANGED <<butterflySettings, sceneVars, butterfly, rotateButterfly, tweens,
                   rendered, gui, viewport, userEvents, evalVars>>

\* renderer.render(scene, camera)
Render ==
    /\ pc = "render"
    /\ rendered' = Snapshot
    /\ pc' = "request"
    /\ UNCHANGED <<butterflySettings, sceneVars, butterfly, rotateButterfly, tweens,
                   frameRequests, gui, viewport, userEvents, evalVars>>

\* Faulty variant of RequestFrame: two callbacks are requested.
RequestFrameTwice ==
    /\ pc = "request"
    /\ frameRequests' = frameRequests + 2
    /\ pc' = "idle"
    /\ UNCHANGED <<butterflySettings, sceneVars, butterfly, rotateButterfly, tweens,
                   rendered, gui, viewport, userEvents, evalVars>>

\* requestAnimationFrame(animate)
RequestFrame ==
    /\ pc = "request"
    /\ frameRequests' = frameRequests + 1
    /\ pc' = "idle"
    /\ UNCHANGED <<butterflySettings, sceneVars, butterfly, rotateButterfly, tweens,
                   rendered, gui, viewport, userEvents, evalVars>>

\* ------------------------------------------------------------------------
\* updateButterfly
\* ------------------------------------------------------------------------

\* Faulty variant of UpdateButterflyCreate: the colours of the startup call are
\* passed instead of butterflySettings.hsl.
UpdateButterflyCreateInitialHsl(settings) ==
    /\ calls < MaxCalls
    /\ calls' = calls + 1
    /\ locals' = NewGeometries(calls + 1, settings.steps, InitialGeometryHsl)
    /\ pc' = "disposeLeft"

\* const {geometryLeft, geometryRight} =
\*     createButterflyGeometry(butterflySettings.steps, butterflySettings.hsl)
\* with the settings record as the controller has just written it.
UpdateButterflyCreate(settings) ==
    /\ calls < MaxCalls
    /\ calls' = calls + 1
    /\ locals' = NewGeometries(calls + 1, settings.steps, settings.hsl)
    /\ pc' = "disposeLeft"

\* Faulty variant of DisposeLeft: the outgoing geometry is not disposed.
DisposeLeftSkipped ==
    /\ pc = "disposeLeft"
    /\ pc' = "disposeRight"
    /\ UNCHANGED <<butterflySettings, wingLeft, wingRight, calls, disposed, locals,
                   butterfly, rotateButterfly, tweens, frameRequests, rendered, gui,
                   viewport, userEvents, evalVars>>

\* wingLeft.geometry.dispose()
DisposeLeft ==
    /\ pc = "disposeLeft"
    /\ disposed' = disposed \cup {wingLeft.geometry.id}
    /\ pc' = "disposeRight"
    /\ UNCHANGED <<butterflySettings, wingLeft, wingRight, calls, locals, butterfly,
                   rotateButterfly, tweens, frameRequests, rendered, gui, viewport,
                   userEvents, evalVars>>

\* wingRight.geometry.dispose()
DisposeRight ==
    /\ pc = "disposeRight"
    /\ disposed' = disposed \cup {wingRight.geometry.id}
    /\ pc' = "assignLeft"
    /\ UNCHANGED <<butterflySettings, wingLeft, wingRight, calls, locals, butterfly,
                   rotateButterfly, tweens, frameRequests, rendered, gui, viewport,
                   userEvents, evalVars>>

\* wingLeft.geometry = geometryLeft
AssignLeft ==
    /\ pc = "assignLeft"
    /\ wingLeft' = [wingLeft EXCEPT !.geometry = locals.geometryLeft]
    /\ pc' = "assignRight"
    /\ UNCHANGED <<butterflySettings, wingRight, calls, disposed, locals, butterfly,
                   rotateButterfly, tweens, frameRequests, rendered, gui, viewport,
                   userEvents, evalVars>>

\* Faulty variant of AssignRight: the right wing keeps its geometry.
AssignRightForgotten ==
    /\ pc = "assignRight"
    /\ locals' = NoLocals
    /\ pc' = "idle"
    /\ UNCHANGED <<butterflySettings, wingLeft, wingRight, calls, disposed, butterfly,
                   rotateButterfly, tweens, frameRequests, rendered, gui, viewport,
                   userEvents, evalVars>>

\* wingRight.geometry = geometryRight, and updateButterfly returns
AssignRight ==
    /\ pc = "assignRight"
    /\ wingRight' = [wingRight EXCEPT !.geometry = locals.geometryRight]
    /\ locals' = NoLocals
    /\ pc' = "idle"
    /\ UNCHANGED <<butterflySettings, wingLeft, calls, disposed, butterfly,
                   rotateButterfly, tweens, frameRequests, rendered, gui, viewport,
                   userEvents, evalVars>>

\* ------------------------------------------------------------------------
\* The controllers of the panel
\* ------------------------------------------------------------------------

\* A controller writes the new value into the settings record and then
\* calls its onChange, which calls updateButterfly.
ChangeSetting(settings) ==
    /\ UserEvent
    /\ butterflySettings' = settings
    /\ UpdateButterflyCreate(settings)
    /\ UNCHANGED <<wingLeft, wingRight, disposed, butterfly, rotateButterfly, tweens,
                   frameRequests, rendered, gui, viewport, evalVars>>

ChangeSteps ==
    \E v \in StepsInputs :
        ChangeSetting([butterflySettings EXCEPT !.steps = v])

ChangeHue ==
    \E v \in HueInputs :
        ChangeSetting([butterflySettings EXCEPT !.hsl.h = v])

ChangeSaturation ==
    \E v \in SaturationInputs :
        ChangeSetting([butterflySettings EXCEPT !.hsl.s = v])

ChangeLightness ==
    \E v \in LightnessInputs :
        ChangeSetting([butterflySettings EXCEPT !.hsl.l = v])

\* Faulty variant of SetPosition: the controller has an onChange that calls
\* updateButterfly.
SetPositionAndUpdate(axis, v) ==
    /\ UserEvent
    /\ butterfly' = [butterfly EXCEPT !.position[axis] = v]
    /\ UpdateButterflyCreate(butterflySettings)
    /\ UNCHANGED <<butterflySettings, wingLeft, wingRight, disposed, rotateButterfly,
                   tweens, frameRequests, rendered, gui, viewport, evalVars>>

\* A Position controller writes butterfly.position.x, .y or .z; it has no
\* onChange.
SetPosition(axis, v) ==
    /\ UserEvent
    /\ butterfly' = [butterfly EXCEPT !.position[axis] = v]
    /\ UNCHANGED <<butterflySettings, sceneVars, rotateButterfly, tweens, pc,
                   frameRequests, rendered, gui, viewport, evalVars>>

ChangePosition ==
    \E axis \in Axes, v \in PositionInputs : SetPosition(axis, v)

\* Faulty variant of RotateOnChange: turning Rotate on makes a new tween.
RotateOnChangeNewTween(settings) ==
    /\ rotateButterfly' =
           IF settings.rotate
           THEN [paused |-> FALSE, time |-> 0]
           ELSE [rotateButterfly EXCEPT !.paused = TRUE]
    /\ tweens' = IF settings.rotate THEN tweens + 1 ELSE tweens

\* The onChange of the Rotate controller, with the record as the checkbox
\* has just written it.
RotateOnChange(settings) ==
    /\ rotateButterfly' =
           IF settings.rotate
           THEN [rotateButterfly EXCEPT !.paused = FALSE]   \* play()
           ELSE [rotateButterfly EXCEPT !.paused = TRUE]    \* pause()
    /\ tweens' = tweens

ChangeRotate ==
    /\ UserEvent
    /\ butterflySettings' = [butterflySettings EXCEPT !.rotate = ~@]
    /\ RotateOnChange(butterflySettings')
    /\ UNCHANGED <<sceneVars, butterfly, pc, frameRequests, rendered, gui, viewport,
                   evalVars>>

\* gsap's ticker advances a playing tween: the tween writes
\* butterfly.rotation.y, and repeat: -1 starts the turn again at its end.
\* rotationY is in units of 1/TicksPerLoop of a turn.
TweenTick ==
    /\ Idle
    /\ ~rotateButterfly.paused
    /\ rotateButterfly' =
           [rotateButterfly EXCEPT !.time = (@ + 1) % TicksPerLoop]
    /\ butterfly' = [butterfly EXCEPT !.rotationY = rotateButterfly'.time]
    /\ UNCHANGED <<butterflySettings, sceneVars, tweens, pc, frameRequests, rendered,
                   gui, viewport, userEvents, evalVars>>

\* ------------------------------------------------------------------------
\* Window listeners
\* ------------------------------------------------------------------------

\* keydown: "g" shows the panel if it is hidden and hides it otherwise.
KeyDown ==
    \E key \in Keys :
        /\ UserEvent
        /\ gui' = IF key = "g" THEN [gui EXCEPT !.hidden = ~@] ELSE gui
        /\ UNCHANGED <<butterflySettings, sceneVars, butterfly, rotateButterfly,
                       tweens, pc, frameRequests, rendered, viewport, evalVars>>

\* resize: the window has a new size; the listener updates the camera's
\* aspect and the renderer's size from it.
Resize ==
    \E size \in WindowSizes :
        /\ UserEvent
        /\ viewport' = [window |-> size, cameraAspect |-> size, rendererSize |-> size]
        /\ UNCHANGED <<butterflySettings, sceneVars, butterfly, rotateButterfly,
                       tweens, pc, frameRequests, rendered, gui, evalVars>>

\* ------------------------------------------------------------------------
\* The program
\* ------------------------------------------------------------------------

Next ==
    \/ AnimateFrame
    \/ Render
    \/ RequestFrame
    \/ ChangeSteps
    \/ ChangeHue
    \/ ChangeSaturation
    \/ ChangeLightness
    \/ DisposeLeft
    \/ DisposeRight
    \/ AssignLeft
    \/ AssignRight
    \/ ChangePosition
    \/ ChangeRotate
    \/ TweenTick
    \/ KeyDown
    \/ Resize

Spec == Init /\ [][Next]_vars

\* The host calls a pending frame callback at the next display refresh, and
\* a callback that has started runs to its end.
Fairness ==
    /\ WF_vars(AnimateFrame)
    /\ WF_vars(Render)
    /\ WF_vars(RequestFrame)
    /\ WF_vars(DisposeLeft)
    /\ WF_vars(DisposeRight)
    /\ WF_vars(AssignLeft)
    /\ WF_vars(AssignRight)

FairSpec == Spec /\ Fairness

\* ------------------------------------------------------------------------
\* The curve evaluator applied on its own
\* ------------------------------------------------------------------------

InitEval ==
    /\ InitApp
    /\ evalIn \in EvalInputs
    /\ evalOut = NoEval

Evaluate ==
    /\ ~evalOut.done
    /\ evalOut' = [done |-> TRUE,
                   call |-> createButterflyGeometry(evalIn.steps, evalIn.hsl)]
    /\ UNCHANGED <<butterflySettings, sceneVars, butterfly, rotateButterfly, tweens,
                   pc, frameRequests, rendered, gui, viewport, userEvents, evalIn>>

NextEval == Evaluate

SpecEval == InitEval /\ [][NextEval]_vars

\* ------------------------------------------------------------------------
\* Properties
\* ------------------------------------------------------------------------

UpdatePcs == {"disposeLeft", "disposeRight", "assignLeft", "assignRight"}
AnimatePcs == {"render", "request"}

Attached == {wingLeft.geometry.id, wingRight.geometry.id}

SettingsArgs == [steps |-> butterflySettings.steps, hsl |-> butterflySettings.hsl]

\* C1: whenever updateButterfly is not in progress (after startup and after
\* any number of updates), exactly two geometries are live and they are the
\* two attached to the wings; and updateButterfly overwrites a wing's
\* geometry reference only after it has disposed that geometry.
C1_LiveGeometriesAreAttached ==
    /\ pc \notin UpdatePcs =>
          /\ Cardinality(Live) = 2
          /\ Live = Attached
          /\ Attached \cap disposed = {}
          /\ (Created \ Attached) \subseteq disposed
    /\ pc = "assignLeft" => wingLeft.geometry.id \in disposed
    /\ pc = "assignRight" => wingRight.geometry.id \in disposed

\* Two updates have completed: the initial pair and the first replacement
\* are disposed, the second replacement is attached.
C1_Witness ==
    /\ pc = "idle"
    /\ calls > 2
    /\ Cardinality(disposed) > 3
    /\ wingLeft.geometry.id = <<calls, "Left">>

\* C2: every render draws a left and a right geometry made by the same
\* createButterflyGeometry call, neither of them disposed; this holds for
\* what the last render drew and for what a frame callback that has been
\* started is about to draw.
C2_RenderSeesWholePair ==
    /\ rendered.left[1] = rendered.right[1]
    /\ rendered.disposed = {}
    /\ pc = "render" =>
          /\ Snapshot.left[1] = Snapshot.right[1]
          /\ Snapshot.disposed = {}

\* A frame has drawn the pair of a replacement after the window was resized.
C2_Witness ==
    /\ pc = "request"
    /\ rendered.left[1] > 1
    /\ rendered.left = wingLeft.geometry.id
    /\ viewport.window # InitialWindow

\* C3: whenever updateButterfly is not in progress, in particular at every
\* render, both attached geometries were made from the whole current
\* settings record (its steps and its h, s and l).
C3_AttachedFromCurrentSettings ==
    pc \notin UpdatePcs =>
        /\ wingLeft.geometry.args = SettingsArgs
        /\ wingRight.geometry.args = SettingsArgs

\* A frame renders after two changes of different settings.
C3_Witness ==
    /\ pc = "render"
    /\ calls > 2
    /\ butterflySettings.steps # InitialSettings.steps
    /\ butterflySettings.hsl.h # InitialSettings.hsl.h
    /\ wingLeft.geometry.args = SettingsArgs

TweenInv ==
    /\ tweens = 1
    /\ rotateButterfly.paused = ~butterflySettings.rotate
    /\ butterfly.rotationY = rotateButterfly.time

TweenStep ==
    /\ tweens' = tweens
    /\ rotateButterfly.paused =>
          /\ rotateButterfly'.time = rotateButterfly.time
          /\ butterfly'.rotationY = butterfly.rotationY

\* C4: there is one tween throughout; it plays exactly when
\* butterflySettings.rotate is true; no step creates a tween; and a step
\* taken while the tween is paused, the step that resumes it included,
\* leaves its progress and the group's rotation as they were.
C4_OneTweenFollowsRotate == []TweenInv /\ [][TweenStep]_vars

\* The tween is paused part of the way through a turn.
C4_Witness ==
    /\ rotateButterfly.paused
    /\ rotateButterfly.time > 0
    /\ ~butterflySettings.rotate

\* C5: a step that changes the group's position changes nothing else: no
\* geometry is created, disposed or attached, no update starts, and the
\* settings, the rotation and the tween stay as they are.
C5_PositionOnly ==
    [][butterfly'.position # butterfly.position =>
          /\ UNCHANGED <<butterflySettings, wingLeft, wingRight, calls, disposed,
                         locals, pc, rotateButterfly, tweens, frameRequests,
                         rendered>>
          /\ butterfly'.rotationY = butterfly.rotationY]_vars

\* The group has been moved while a replaced geometry is attached and the
\* tween is playing.
C5_Witness ==
    /\ butterfly.position.x # 0
    /\ calls > 1
    /\ pc = "idle"
    /\ ~rotateButterfly.paused

AttributeHolds(attribute, n) ==
    /\ Len(attribute.array) = 3 * n
    /\ attribute.count = n

ShapeHolds(shape, n) ==
    /\ shape.array.length = 3 * n
    /\ shape.count = n

\* C6: for steps > 0 the position attribute of each geometry and the colour
\* attribute hold exactly steps triples; the shapes the scene keeps are
\* those of the evaluator's attributes; and the geometries attached at
\* startup hold as many triples as the steps they were made from.
C6_BuffersHoldStepsTriples ==
    /\ (evalOut.done /\ evalIn.steps > 0) =>
          /\ AttributeHolds(evalOut.call.made.geometryLeft.position, evalIn.steps)
          /\ AttributeHolds(evalOut.call.made.geometryRight.position, evalIn.steps)
          /\ AttributeHolds(evalOut.call.made.geometryLeft.color, evalIn.steps)
          /\ AttributeHolds(evalOut.call.made.geometryRight.color, evalIn.steps)
          /\ \A side \in {"geometryLeft", "geometryRight"} :
                \A name \in {"position", "color"} :
                    Shape(evalOut.call.made[side][name])
                        = createButterflyShapes(evalIn.steps, evalIn.hsl)[side][name]
    /\ \A wing \in {wingLeft, wingRight} :
          /\ ShapeHolds(wing.geometry.position, wing.geometry.args.steps)
          /\ ShapeHolds(wing.geometry.color, wing.geometry.args.steps)

\* The evaluator has returned buffers of several triples.
C6_Witness ==
    /\ evalOut.done
    /\ evalIn.steps > 2
    /\ evalOut.call.made.geometryLeft.position.count = evalIn.steps

\* The point at index i (from 0) of a position attribute.
PointAt(attribute, i) ==
    <<attribute.array[3 * i + 1], attribute.array[3 * i + 2], attribute.array[3 * i + 3]>>

\* C7: at every index the right point is the left point with x negated.
C7_RightMirrorsLeft ==
    evalOut.done =>
        \A i \in 0..(evalOut.call.made.geometryLeft.position.count - 1) :
            /\ i < evalOut.call.made.geometryRight.position.count
            /\ PointAt(evalOut.call.made.geometryRight.position, i)[1]
                   = -PointAt(evalOut.call.made.geometryLeft.position, i)[1]
            /\ PointAt(evalOut.call.made.geometryRight.position, i)[2]
                   = PointAt(evalOut.call.made.geometryLeft.position, i)[2]
            /\ PointAt(evalOut.call.made.geometryRight.position, i)[3]
                   = PointAt(evalOut.call.made.geometryLeft.position, i)[3]

\* The evaluator has returned a left point off the mirror axis.
C7_Witness ==
    /\ evalOut.done
    /\ \E i \in 0..(evalOut.call.made.geometryLeft.position.count - 1) :
          PointAt(evalOut.call.made.geometryLeft.position, i)[1] > 0

\* f = a / b for a fraction f: by cross-multiplication, unless the
\* denominators are already the same.
FractionIs(f, a, b) == IF f.den = b THEN f.num = a ELSE f.num * b = a * f.den

\* C8 as stated: the lightness at sample i is l * (i / steps), and at the
\* last sample it is the configured l.
C8_LastLightnessIsL ==
    (evalOut.done /\ evalIn.steps > 0) =>
        /\ \A k \in 1..evalIn.steps :
              FractionIs(evalOut.call.setHSLCalls[k].l,
                         evalIn.hsl.l * (k - 1), Hundredths * evalIn.steps)
        /\ FractionIs(evalOut.call.setHSLCalls[evalIn.steps].l,
                      evalIn.hsl.l, Hundredths)

\* C8 amended: the lightness at sample i is l * (i / steps); it is 0 at
\* i = 0 and l * (steps - 1) / steps at the last sample, which is below l
\* whenever l > 0.
C8_LightnessRamp ==
    (evalOut.done /\ evalIn.steps > 0) =>
        /\ Len(evalOut.call.setHSLCalls) = evalIn.steps
        /\ \A k \in 1..evalIn.steps :
              FractionIs(evalOut.call.setHSLCalls[k].l,
                         evalIn.hsl.l * (k - 1), Hundredths * evalIn.steps)
        /\ evalOut.call.setHSLCalls[1].l.num = 0
        /\ FractionIs(evalOut.call.setHSLCalls[evalIn.steps].l,
                      evalIn.hsl.l * (evalIn.steps - 1), Hundredths * evalIn.steps)
        /\ evalIn.hsl.l > 0 =>
              evalOut.call.setHSLCalls[evalIn.steps].l.num * Hundredths
                  < evalIn.hsl.l * evalOut.call.setHSLCalls[evalIn.steps].l.den

\* The evaluator has run several iterations with a positive l.
C8_Witness ==
    /\ evalOut.done
    /\ evalIn.steps > 2
    /\ evalIn.hsl.l > 0
    /\ evalOut.call.setHSLCalls[evalIn.steps].l.num > 0

InUnitInterval(f) == 0 <= f.num /\ f.num <= f.den

\* C9: the hue passed to setHSL is never negative and never above 1, in
\* the calls made and for every slider position of h at every sample; and
\* for h = 0.85 at pct = 1 (i = steps) the expression gives 0.55.
C9_HueInUnitInterval ==
    (evalOut.done /\ evalIn.steps > 0) =>
        /\ \A k \in 1..Len(evalOut.call.setHSLCalls) :
              InUnitInterval(evalOut.call.setHSLCalls[k].h)
        /\ \A h \in 0..Hundredths :
              \A i \in LoopIndices(evalIn.steps) :
                  InUnitInterval(HueArg(h, i, evalIn.steps))
        /\ FractionIs(HueArg(85, evalIn.steps, evalIn.steps), 55, Hundredths)

\* The evaluator has made a call whose hue wrapped around 1.
C9_Witness ==
    /\ evalOut.done
    /\ evalIn.steps > 1
    /\ evalIn.hsl.h = Hundredths
    /\ FractionIs(evalOut.call.setHSLCalls[2].h,
                  Hundredths * evalIn.steps - 30, Hundredths * evalIn.steps)

FrameInv ==
    /\ frameRequests + (IF pc \in AnimatePcs THEN 1 ELSE 0) = 1
    /\ pc = "request" => rendered = Snapshot

FrameStep ==
    frameRequests' # frameRequests =>
        \/ pc = "idle" /\ pc' = "render" /\ frameRequests' = frameRequests - 1
        \/ pc = "request" /\ pc' = "idle" /\ frameRequests' = frameRequests + 1

\* C10: at every moment exactly one frame callback is running or pending;
\* only the start of animate and its requestAnimationFrame change the
\* pending callbacks; each render draws what is attached at that moment;
\* the loop renders again and again; and a pair that is attached and not
\* yet drawn is drawn later.
C10_FrameLoop ==
    /\ []FrameInv
    /\ [][FrameStep]_vars
    /\ []<>(pc = "render")
    /\ (pc = "idle" /\ rendered # Snapshot) ~> (rendered = Snapshot)

\* A frame callback is about to draw a pair that replaced the drawn one.
C10_Witness ==
    /\ pc = "render"
    /\ frameRequests = 0
    /\ rendered.left # wingLeft.geometry.id

====
